---- MODULE Spec2Model ----
(***************************************************************************)
(* Model of Tigger/bin/tigger_tag.py: the argument loop of main(), which   *)
(* classifies each command-line token with four regular expressions,       *)
(* accumulates selections of sources and applies tagging commands.         *)
(*                                                                         *)
(* Text is kept as text: tokens, names and tag names are strings and the   *)
(* regular expressions, fnmatch and the numeric parsers are operators over *)
(* their characters.  Alphabet of the modelled tokens: letters, digits,    *)
(* and the characters  = < > ! . + - / * ? :  (no blanks, no '[', no       *)
(* exponent or inf/nan spellings of floats).                               *)
(*                                                                         *)
(* Real numbers: DEG = pi/180 is irrational, so a float is kept exactly as *)
(* n + a*ARCSEC with integers n, a (ARCSEC = DEG/3600 radians).  With      *)
(* |a| < 206264 (one radian is 206264.8 arc seconds) the order of two such *)
(* numbers is the lexicographic order of (n, a).                           *)
(***************************************************************************)
EXTENDS Integers, Sequences, FiniteSets, TLC

\* ------------------------------------------------------------------------
\* Bounds of the model
\* ------------------------------------------------------------------------
MaxArgs == 4
NSrc == 2

\* ------------------------------------------------------------------------
\* Text helpers
\* ------------------------------------------------------------------------
Ch(s, i) == SubSeq(s, i, i)

UpperChars == "ABCDEFGHIJKLMNOPQRSTUVWXYZ"
LowerChars == "abcdefghijklmnopqrstuvwxyz"

LowerCh(c) ==
  IF \E i \in 1..26 : Ch(UpperChars, i) = c
  THEN Ch(LowerChars, CHOOSE i \in 1..26 : Ch(UpperChars, i) = c)
  ELSE c

RECURSIVE LowerStr(_)
LowerStr(s) == IF Len(s) = 0 THEN "" ELSE LowerCh(Ch(s, 1)) \o LowerStr(Tail(s))

StartsWith(s, p) == Len(s) >= Len(p) /\ SubSeq(s, 1, Len(p)) = p

DropFirst(s, k) == SubSeq(s, k + 1, Len(s))

\* ------------------------------------------------------------------------
\* Python values.  One record shape for all of them:
\*   bool    n = 0/1          int     n
\*   float   n + a*ARCSEC     complex n + a*j  (integer parts)
\*   str     s                obj     s = name of the sub-object
\* ------------------------------------------------------------------------
PyNone == [t |-> "None", n |-> 0, a |-> 0, s |-> ""]
PyBool(b) == [t |-> "bool", n |-> IF b THEN 1 ELSE 0, a |-> 0, s |-> ""]
PyInt(n) == [t |-> "int", n |-> n, a |-> 0, s |-> ""]
PyFloat(n, a) == [t |-> "float", n |-> n, a |-> a, s |-> ""]
PyComplex(re, im) == [t |-> "complex", n |-> re, a |-> im, s |-> ""]
PyStr(s) == [t |-> "str", n |-> 0, a |-> 0, s |-> s]
PyObj(k) == [t |-> "obj", n |-> 0, a |-> 0, s |-> k]

\* bool(v) of Python, as used by "if getTagValue(src, seltag)"
Truthy(v) ==
  CASE v.t = "None" -> FALSE
    [] v.t = "str" -> Len(v.s) > 0
    [] v.t = "obj" -> TRUE
    [] OTHER -> v.n # 0 \/ v.a # 0

\* Python == between two values (numbers compare by value across types)
PyNumeric(v) == v.t \in {"bool", "int", "float"}
PyEq(x, y) ==
  CASE PyNumeric(x) /\ PyNumeric(y) -> x.n = y.n /\ x.a = y.a
    [] x.t = "complex" /\ PyNumeric(y) -> x.a = 0 /\ x.n = y.n /\ y.a = 0
    [] PyNumeric(x) /\ y.t = "complex" -> y.a = 0 /\ x.n = y.n /\ x.a = 0
    [] OTHER -> x = y

\* Python < between two real numbers kept as n + a*ARCSEC
PyLt(x, y) == x.n < y.n \/ (x.n = y.n /\ x.a < y.a)

\* ------------------------------------------------------------------------
\* Numeric text: int(), float(), complex() of Python on the alphabet
\* ------------------------------------------------------------------------
Digits == "0123456789"
IsDigit(c) == \E i \in 1..10 : Ch(Digits, i) = c
DigitVal(c) == (CHOOSE i \in 1..10 : Ch(Digits, i) = c) - 1
IsDigits(s) == Len(s) > 0 /\ \A i \in 1..Len(s) : IsDigit(Ch(s, i))

RECURSIVE DigitsVal(_)
DigitsVal(s) ==
  IF Len(s) = 0 THEN 0
  ELSE 10 * DigitsVal(SubSeq(s, 1, Len(s) - 1)) + DigitVal(Ch(s, Len(s)))

HasSign(s) == Len(s) > 0 /\ Ch(s, 1) \in {"+", "-"}
Unsigned(s) == IF HasSign(s) THEN Tail(s) ELSE s
SignOf(s) == IF Len(s) > 0 /\ Ch(s, 1) = "-" THEN -1 ELSE 1

\* int(s) succeeds
IsIntText(s) == IsDigits(Unsigned(s))
IntVal(s) == SignOf(s) * DigitsVal(Unsigned(s))

\* float(s) succeeds: [sign] digits [. digits] with at least one digit
DotAt(s) == IF \E i \in 1..Len(s) : Ch(s, i) = "."
            THEN CHOOSE i \in 1..Len(s) : Ch(s, i) = "." /\ \A j \in 1..(i - 1) : Ch(s, j) # "."
            ELSE 0
IsDecimal(u) ==
  IF DotAt(u) = 0 THEN IsDigits(u)
  ELSE LET ip == SubSeq(u, 1, DotAt(u) - 1)
           fp == DropFirst(u, DotAt(u))
       IN /\ Len(ip) + Len(fp) > 0
          /\ Len(ip) = 0 \/ IsDigits(ip)
          /\ Len(fp) = 0 \/ IsDigits(fp)
IsFloatText(s) == IsDecimal(Unsigned(s))
\* the value; the tokens of the model carry no non-zero fraction digits
FloatVal(s) ==
  LET u == Unsigned(s)
      ip == IF DotAt(u) = 0 THEN u ELSE SubSeq(u, 1, DotAt(u) - 1)
  IN SignOf(s) * DigitsVal(ip)

\* complex(s) succeeds: a float, or [float] [sign] [float] j
LastSignAt(s) ==
  IF \E i \in 2..Len(s) : Ch(s, i) \in {"+", "-"}
  THEN CHOOSE i \in 2..Len(s) : Ch(s, i) \in {"+", "-"} /\ \A j \in (i + 1)..Len(s) : Ch(s, j) \notin {"+", "-"}
  ELSE 0
\* the imaginary coefficient: a float, or a bare sign or nothing for 1
IsImagText(s) == Len(Unsigned(s)) = 0 \/ IsFloatText(s)
ImagVal(s) == IF Len(Unsigned(s)) = 0 THEN SignOf(s) ELSE FloatVal(s)
IsComplexText(s) ==
  \/ IsFloatText(s)
  \/ /\ Len(s) >= 1
     /\ Ch(s, Len(s)) \in {"j", "J"}
     /\ LET body == SubSeq(s, 1, Len(s) - 1)
        IN IF LastSignAt(body) = 0 THEN IsImagText(body)
           ELSE /\ IsFloatText(SubSeq(body, 1, LastSignAt(body) - 1))
                /\ IsImagText(DropFirst(body, LastSignAt(body) - 1))
ComplexVal(s) ==
  IF IsFloatText(s) THEN PyComplex(FloatVal(s), 0)
  ELSE LET body == SubSeq(s, 1, Len(s) - 1)
       IN IF LastSignAt(body) = 0 THEN PyComplex(0, ImagVal(body))
          ELSE PyComplex(FloatVal(SubSeq(body, 1, LastSignAt(body) - 1)),
                         ImagVal(DropFirst(body, LastSignAt(body) - 1)))

\* ------------------------------------------------------------------------
\* The four regular expressions of the argument loop
\* ------------------------------------------------------------------------
\* keys of select_predicates in insertion order: the order of the regex
\* alternation
OperKeys == <<"==", "!=", ">=", "<=", ">", "<",
              ".eq.", ".ne.", ".ge.", ".le.", ".gt.", ".lt.">>

\* the class [=<>!.] that the tag group excludes
IsStopCh(c) == c \in {"=", "<", ">", "!", "."}
\* the class [dms] under (?i)
IsUnitCh(c) == LowerCh(c) \in {"d", "m", "s"}

FirstStop(arg) ==
  IF \E i \in 1..Len(arg) : IsStopCh(Ch(arg, i))
  THEN CHOOSE i \in 1..Len(arg) :
         IsStopCh(Ch(arg, i)) /\ \A j \in 1..(i - 1) : ~IsStopCh(Ch(arg, j))
  ELSE 0

\* alternative k of the operator group matches at position p and the group
\* ([^dms]+) can take at least one character after it
OperFits(arg, p, k) ==
  LET q == p + Len(OperKeys[k])
  IN /\ q <= Len(arg)
     /\ LowerStr(SubSeq(arg, p, q - 1)) = OperKeys[k]
     /\ ~IsUnitCh(Ch(arg, q))

\* end of the greedy run of [^dms] that starts at q
RunEnd(arg, q) ==
  CHOOSE e \in q..Len(arg) :
    /\ \A j \in q..e : ~IsUnitCh(Ch(arg, j))
    /\ e = Len(arg) \/ IsUnitCh(Ch(arg, e + 1))

NoMatch == [m |-> FALSE, seltag |-> "", oper |-> "", selval |-> "", unit |-> ""]

\* re.match("(?i)^([^=<>!.]+)(==|!=|...)([^dms]+)([dms])?", arg);
\* unit "" stands for the unmatched group (None)
mselcomp(arg) ==
  LET p == FirstStop(arg)
  IN IF p < 2 \/ ~\E k \in 1..12 : OperFits(arg, p, k) THEN NoMatch
     ELSE LET k == CHOOSE i \in 1..12 :
                     OperFits(arg, p, i) /\ \A j \in 1..(i - 1) : ~OperFits(arg, p, j)
              q == p + Len(OperKeys[k])
              e == RunEnd(arg, q)
          IN [m |-> TRUE,
              seltag |-> SubSeq(arg, 1, p - 1),
              oper |-> SubSeq(arg, p, q - 1),
              selval |-> SubSeq(arg, q, e),
              unit |-> IF e < Len(arg) THEN Ch(arg, e + 1) ELSE ""]

\* re.match("=(.+)$", arg)
mseltag(arg) ==
  IF Len(arg) >= 2 /\ Ch(arg, 1) = "="
  THEN [m |-> TRUE, seltag |-> Tail(arg)]
  ELSE [m |-> FALSE, seltag |-> ""]

TypeNames == <<"bool", "int", "str", "float", "complex">>

\* re.match("^(.+)=((bool|int|str|float|complex):)?(.+)$", arg): the greedy
\* first group ends at the last '=' that leaves a character on both sides;
\* typename "" stands for the unmatched group (None)
mset(arg) ==
  LET eqs == {i \in 2..(Len(arg) - 1) : Ch(arg, i) = "="}
  IN IF eqs = {} THEN [m |-> FALSE, tagname |-> "", typename |-> "", value |-> ""]
     ELSE LET k == CHOOSE i \in eqs : \A j \in eqs : j <= i
              rest == DropFirst(arg, k)
              typed == {i \in 1..5 : /\ StartsWith(rest, TypeNames[i] \o ":")
                                     /\ Len(rest) > Len(TypeNames[i]) + 1}
          IN IF typed = {}
             THEN [m |-> TRUE, tagname |-> SubSeq(arg, 1, k - 1),
                   typename |-> "", value |-> rest]
             ELSE LET i == CHOOSE j \in typed : TRUE
                  IN [m |-> TRUE, tagname |-> SubSeq(arg, 1, k - 1),
                      typename |-> TypeNames[i],
                      value |-> DropFirst(rest, Len(TypeNames[i]) + 1)]

\* re.match("^([+!/])(.+)$", arg)
msetbool(arg) ==
  IF Len(arg) >= 2 /\ Ch(arg, 1) \in {"+", "!", "/"}
  THEN [m |-> TRUE, op |-> Ch(arg, 1), tagname |-> Tail(arg)]
  ELSE [m |-> FALSE, op |-> "", tagname |-> ""]

\* fnmatch.fnmatch(name, pat) for patterns of literals, '*' and '?'
RECURSIVE fnmatch(_, _)
fnmatch(name, pat) ==
  IF Len(pat) = 0 THEN Len(name) = 0
  ELSE IF Ch(pat, 1) = "*"
       THEN fnmatch(name, Tail(pat)) \/ (Len(name) > 0 /\ fnmatch(Tail(name), pat))
       ELSE /\ Len(name) > 0
            /\ Ch(pat, 1) = "?" \/ Ch(pat, 1) = Ch(name, 1)
            /\ fnmatch(Tail(name), Tail(pat))

\* tagname.split(".")
RECURSIVE Split(_)
Split(s) ==
  IF DotAt(s) = 0 THEN <<s>>
  ELSE <<SubSeq(s, 1, DotAt(s) - 1)>> \o Split(DropFirst(s, DotAt(s)))

\* the chain with the assignment form tested before the =SELTAG form
Classify_assignfirst(arg) ==
  CASE mselcomp(arg).m -> "selcomp"
    [] mset(arg).m -> "set"
    [] mseltag(arg).m -> "seltag"
    [] ~msetbool(arg).m -> "selname"
    [] OTHER -> "setbool"

\* the branch of the if/elif chain of the loop body that handles arg
Classify(arg) ==
  CASE mselcomp(arg).m -> "selcomp"
    [] mseltag(arg).m -> "seltag"
    [] ~mset(arg).m /\ ~msetbool(arg).m -> "selname"
    [] mset(arg).m -> "set"
    [] OTHER -> "setbool"

\* ------------------------------------------------------------------------
\* The catalog: model.sources is the list of sources 1..NSrc in model order.
\* A source has its own attributes (attrs) and named sub-objects (sub), each
\* a finite map from attribute names to values.
\* ------------------------------------------------------------------------
Put(f, k, v) == [x \in (DOMAIN f) \cup {k} |-> IF x = k THEN v ELSE f[x]]
Del(f, k) == [x \in (DOMAIN f) \ {k} |-> f[x]]
NoAttrs == [x \in {} |-> PyNone]

MkSource(name, tags, pos, flux) ==
  [attrs |-> Put(Put(Put(tags, "name", PyStr(name)), "pos", PyObj("pos")), "flux", PyObj("flux")),
   sub |-> [pos |-> pos, flux |-> flux]]

\* a source with the optional sub-object shape
WithShape(src, shape) ==
  [attrs |-> Put(src.attrs, "shape", PyObj("shape")), sub |-> Put(src.sub, "shape", shape)]

\* a source with the optional sub-object spectrum
WithSpectrum(src, spectrum) ==
  [attrs |-> Put(src.attrs, "spectrum", PyObj("spectrum")),
   sub |-> Put(src.sub, "spectrum", spectrum)]

\* the sources a catalog of the model is made of: r is 1 arc second,
\* 1 degree and 1 radian; dE is True, False and absent; one has a shape
\* and a spectrum
SourceKinds ==
  { MkSource("A1", [dE |-> PyBool(TRUE), r |-> PyFloat(0, 1)],
             [ra |-> PyFloat(0, 3600)], [I |-> PyFloat(1, 0)]),
    MkSource("B1", [dE |-> PyBool(FALSE), r |-> PyFloat(0, 3600)],
             [ra |-> PyFloat(0, 7200)], [I |-> PyFloat(2, 0)]),
    WithSpectrum(WithShape(MkSource("A2", [r |-> PyFloat(1, 0)],
                                    [ra |-> PyFloat(1, 0)], [I |-> PyFloat(0, 0)]),
                           [ex |-> PyFloat(0, 2)]),
                 [spi |-> PyFloat(1, 0)]) }

Names == {k.attrs["name"].s : k \in SourceKinds}

AllIds == 1..NSrc

\* an optional set of source ids: None, or a set
None == [none |-> TRUE, ids |-> {}]
Some(S) == [none |-> FALSE, ids |-> S]

\* ------------------------------------------------------------------------
\* Comparison thresholds and value conversion
\* ------------------------------------------------------------------------
\* select_units.get(unit, 1.): DEG, DEG/60, DEG/3600, else 1.0
select_units(unit) ==
  CASE unit = "d" -> PyFloat(0, 3600)
    [] unit = "m" -> PyFloat(0, 60)
    [] unit = "s" -> PyFloat(0, 1)
    [] OTHER -> PyFloat(1, 0)

\* float(selval) * select_units.get(unit, 1.)
Scaled(selval, unit) ==
  PyFloat(FloatVal(selval) * select_units(unit).n, FloatVal(selval) * select_units(unit).a)

Converted(v) == [ok |-> TRUE, val |-> v]
NotConverted == [ok |-> FALSE, val |-> PyNone]

\* the builtin type typename applied to the text value
BuiltinType(typename, value) ==
  CASE typename = "int" -> IF IsIntText(value) THEN Converted(PyInt(IntVal(value))) ELSE NotConverted
    [] typename = "float" -> IF IsFloatText(value) THEN Converted(PyFloat(FloatVal(value), 0)) ELSE NotConverted
    [] typename = "complex" -> IF IsComplexText(value) THEN Converted(ComplexVal(value)) ELSE NotConverted
    [] typename = "str" -> Converted(PyStr(value))
    [] OTHER -> NotConverted

\* whether globals() of the module holds the key "__builtin__": Python 3
\* names the module builtins and binds it as __builtins__
GlobalsHasBuiltin == FALSE

\* lines 290-317: ok FALSE is the "Can't parse" exit
ConvertValue(typename, value) ==
  CASE typename = "bool" ->
         LET val == LowerStr(value)
         IN IF val = "true" \/ val = "t" THEN Converted(PyBool(TRUE))
            ELSE IF val = "false" \/ val = "f" THEN Converted(PyBool(FALSE))
            ELSE IF IsIntText(value) THEN Converted(PyBool(IntVal(value) # 0))
            ELSE NotConverted
    [] typename # "bool" /\ typename # "" ->
         IF GlobalsHasBuiltin THEN BuiltinType(typename, value) ELSE NotConverted
    [] OTHER ->
         IF IsIntText(value) THEN Converted(PyInt(IntVal(value)))
         ELSE IF IsFloatText(value) THEN Converted(PyFloat(FloatVal(value), 0))
         ELSE IF IsComplexText(value) THEN Converted(ComplexVal(value))
         ELSE Converted(PyStr(value))

\* ------------------------------------------------------------------------
\* What lines 260-264, 268-270, 278 and 287-317 make of one argument: it
\* depends on the text of the argument only and is tabulated per token.
\*   comp, set, bool  the match objects mselcomp, mset, msetbool
\*   key              oper.lower()
\*   numeric, selval  whether float(selval) succeeds, and the scaled value
\*   conv             newval of the TAG=[TYPE:]VALUE form
\*   tags             tagname.split(".") of the tagging command
\*   names            the names of the catalog that fnmatch against arg
\* ------------------------------------------------------------------------
ParseArg(arg) ==
  LET c == mselcomp(arg)
      s == mset(arg)
      b == msetbool(arg)
  IN [arg |-> arg,
      kind |-> Classify(arg),
      comp |-> c,
      key |-> LowerStr(c.oper),
      numeric |-> IsFloatText(c.selval),
      selval |-> IF IsFloatText(c.selval) THEN Scaled(c.selval, c.unit) ELSE PyNone,
      seltag |-> mseltag(arg).seltag,
      set |-> s,
      conv |-> ConvertValue(s.typename, s.value),
      bool |-> b,
      tags |-> Split(IF s.m THEN s.tagname ELSE b.tagname),
      names |-> {n \in Names : fnmatch(n, arg)}]

\* ------------------------------------------------------------------------
\* Command-line vocabularies: every specification draws its arguments from
\* one of them
\* ------------------------------------------------------------------------
\* selections by name, tag and comparison, and the tagging commands
Tokens == {"A*", "=dE", "r>2s", "dE=0", "+dE", "!dE"}

\* comparisons in both spellings, and an assignment that changes the
\* compared tag
CmpTokens == {"r<2s", "r.GE.1d", "r=1"}

\* comparisons whose right-hand side is not a number, and the other forms
MalTokens == {"r<xyz", "r<dog", "r==d", "r<1dx", "=dE", "+dE"}

\* comparisons with units in either case, and the other forms
UnitTokens == {"r<1d", "r<1D", "r<3600s", "r<60m", "r<1", "A*", "=dE", "r=1", "/dE"}

\* assignments with an explicit type, and the other forms
TypedTokens == {"x=int:5", "x=float:5", "x=str:ab", "x=complex:1+2j", "x=bool:T",
                "x=bool:0", "A*", "=x", "x==5", "/x"}

\* selections that match no source, then every tagging command
EmptyTokens == {"N*", "=zz", "zz<1", "x=5", "x=int:5", "+dE", "!dE", "/dE"}

\* selections and tagging commands given together with --list, among them
\* typed assignments
ListTokens == {"A*", "=dE", "r<1d", "x=int:5", "dE=bool:maybe", "/dE"}

\* tokens that more than one of the four expressions match
PrioTokens == {"a==5", "=a=b", "+a=b", "A*", "+dE", "a=5"}

\* comparisons on a tag that some or all sources lack, and the commands
\* that set and remove it
AbsentTokens == {"dE!=1", "/dE", "A*", "=dE", "dE=1"}

\* tagging commands with dotted paths that resolve on every source, on the
\* source with a shape only, and selections by the tags they write
PathTokens == {"A*", "=ok", "x<2", "pos.x=1", "+pos.ok", "/flux.I", "+shape.ok"}

\* commands that write, clear and remove dE, and the selections that read it
OrderTokens == {"A1", "=dE", "+dE", "/dE", "dE=0", "r<1d"}

\* selections by dE and commands that write dE on the source and on its
\* flux, shape and spectrum
ShadowTokens == {"=dE", "dE>0", "A2", "!dE", "flux.dE=1", "shape.dE=0", "spectrum.dE=1"}

\* commands that end the run with each of the fatal errors, and commands
\* that change the model
SaveTokens == {"A*", "=dE", "r<xyz", "dE=bool:maybe", "+shape.ok", "+dE"}

Argv == {ParseArg(arg) : arg \in Tokens}
CmpArgv == {ParseArg(arg) : arg \in CmpTokens}
MalArgv == {ParseArg(arg) : arg \in MalTokens}
UnitArgv == {ParseArg(arg) : arg \in UnitTokens}
TypedArgv == {ParseArg(arg) : arg \in TypedTokens}
EmptyArgv == {ParseArg(arg) : arg \in EmptyTokens}
ListArgv == {ParseArg(arg) : arg \in ListTokens}
PrioArgv == {ParseArg(arg) : arg \in PrioTokens}
AbsentArgv == {ParseArg(arg) : arg \in AbsentTokens}
PathArgv == {ParseArg(arg) : arg \in PathTokens}
OrderArgv == {ParseArg(arg) : arg \in OrderTokens}
ShadowArgv == {ParseArg(arg) : arg \in ShadowTokens}
SaveArgv == {ParseArg(arg) : arg \in SaveTokens}

\* ---- state
VARIABLES
  sources,        \* model.sources: id -> source object
  selected_ids,   \* global selected_ids
  selection,      \* global selection
  listed,         \* global listed: "unset" until first assigned
  modified,       \* local modified of main()
  options_list,   \* options.list
  args,           \* the arguments of rem_args[1:] consumed so far
  pc,             \* "loop", or how the run ended
  out             \* what the last step printed

vars == <<sources, selected_ids, selection, listed, modified, options_list, args, pc, out>>

Msg(kind, text) == [msg |-> kind, text |-> text]

\* ------------------------------------------------------------------------
\* Helper functions of main()
\* ------------------------------------------------------------------------
\* getattr(src, k, None)
Attr(src, k) == IF k \in DOMAIN src.attrs THEN src.attrs[k] ELSE PyNone

\* the attribute map of the object a value of a source refers to; values
\* that are not sub-objects carry none of the attributes of the model
ObjAttrs(src, v) ==
  IF v.t = "obj" /\ v.s \in DOMAIN src.sub THEN src.sub[v.s] ELSE NoAttrs

\* getTagValue evaluates src.pos and src.flux without a default
getTagValueRaises(src) == "pos" \notin DOMAIN src.attrs \/ "flux" \notin DOMAIN src.attrs

\* hasattr(obj, tag) and getattr(obj, tag) on the object the value v names
HasTag(src, v, tag) == tag \in DOMAIN ObjAttrs(src, v)
TagOf(src, v, tag) == ObjAttrs(src, v)[tag]

\* getTagValue trying flux before the source and its position
getTagValue_fluxfirst(src, tag) ==
  IF HasTag(src, Attr(src, "flux"), tag) THEN TagOf(src, Attr(src, "flux"), tag)
  ELSE IF tag \in DOMAIN src.attrs THEN src.attrs[tag]
  ELSE IF HasTag(src, Attr(src, "pos"), tag) THEN TagOf(src, Attr(src, "pos"), tag)
  ELSE IF HasTag(src, Attr(src, "shape"), tag) THEN TagOf(src, Attr(src, "shape"), tag)
  ELSE IF HasTag(src, Attr(src, "spectrum"), tag) THEN TagOf(src, Attr(src, "spectrum"), tag)
  ELSE PyNone

getTagValue(src, tag) ==
  IF tag \in DOMAIN src.attrs THEN src.attrs[tag]
  ELSE IF HasTag(src, Attr(src, "pos"), tag) THEN TagOf(src, Attr(src, "pos"), tag)
  ELSE IF HasTag(src, Attr(src, "flux"), tag) THEN TagOf(src, Attr(src, "flux"), tag)
  ELSE IF HasTag(src, Attr(src, "shape"), tag) THEN TagOf(src, Attr(src, "shape"), tag)
  ELSE IF HasTag(src, Attr(src, "spectrum"), tag) THEN TagOf(src, Attr(src, "spectrum"), tag)
  ELSE PyNone

\* select_predicates with .ge. and .le. bound to the strict comparisons
select_predicates_strict(key, x, y) ==
  CASE key = "==" -> PyEq(x, y)
    [] key = "!=" -> ~PyEq(x, y)
    [] key = ">=" -> ~PyLt(x, y)
    [] key = "<=" -> ~PyLt(y, x)
    [] key = ">" -> PyLt(y, x)
    [] key = "<" -> PyLt(x, y)
    [] key = ".eq." -> PyEq(x, y)
    [] key = ".ne." -> ~PyEq(x, y)
    [] key = ".ge." -> PyLt(y, x)
    [] key = ".le." -> PyLt(x, y)
    [] key = ".gt." -> PyLt(y, x)
    [] key = ".lt." -> PyLt(x, y)

\* select_predicates[key](x, y); "TypeError" is raised by the ordering
\* comparisons when x is not a real number
Ordering(key) == key \notin {"==", "!=", ".eq.", ".ne."}
PredicateRaises(key, x) == Ordering(key) /\ ~PyNumeric(x)
select_predicates(key, x, y) ==
  CASE key = "==" -> PyEq(x, y)
    [] key = "!=" -> ~PyEq(x, y)
    [] key = ">=" -> ~PyLt(x, y)
    [] key = "<=" -> ~PyLt(y, x)
    [] key = ">" -> PyLt(y, x)
    [] key = "<" -> PyLt(x, y)
    [] key = ".eq." -> PyEq(x, y)
    [] key = ".ne." -> ~PyEq(x, y)
    [] key = ".ge." -> ~PyLt(x, y)
    [] key = ".le." -> ~PyLt(y, x)
    [] key = ".gt." -> PyLt(y, x)
    [] key = ".lt." -> PyLt(x, y)

\* the message apply_selection prints, by the number of sources matched
SelectionReport(sel, selstr) ==
  CASE Cardinality(sel) = 0 -> Msg("no sources selected", selstr)
    [] Cardinality(sel) = 1 -> Msg("one source selected", selstr)
    [] Cardinality(sel) <= 5 -> Msg("sources selected by name", selstr)
    [] OTHER -> Msg("sources selected", selstr)

\* apply_selection that forgets the accumulator: the new match set replaces
\* whatever was selected before
apply_selection_overwrite(sel, selstr) ==
  LET reset == ~selection.none \/ selected_ids.none
  IN /\ listed' = "False"
     /\ selected_ids' = Some(sel)
     /\ selection' = IF reset THEN None ELSE selection
     /\ out' = (IF reset THEN <<Msg("Selecting sources:", "")>> ELSE <<>>)
               \o <<SelectionReport(sel, selstr)>>

\* apply_selection that resets only when nothing was selected yet: a
\* materialized selection is extended instead of replaced
apply_selection_extend(sel, selstr) ==
  LET reset == selected_ids.none
  IN /\ listed' = "False"
     /\ selected_ids' = Some((IF reset THEN {} ELSE selected_ids.ids) \cup sel)
     /\ selection' = IF reset THEN None ELSE selection
     /\ out' = (IF reset THEN <<Msg("Selecting sources:", "")>> ELSE <<>>)
               \o <<SelectionReport(sel, selstr)>>

\* apply_selection(sel, selstr)
apply_selection(sel, selstr) ==
  LET reset == ~selection.none \/ selected_ids.none
  IN /\ listed' = "False"
     /\ selected_ids' = Some((IF reset THEN {} ELSE selected_ids.ids) \cup sel)
     /\ selection' = IF reset THEN None ELSE selection
     /\ out' = (IF reset THEN <<Msg("Selecting sources:", "")>> ELSE <<>>)
               \o <<SelectionReport(sel, selstr)>>

\* retrieve_selection testing "if not selected_ids": an empty explicit
\* selection is taken for no selection at all
retrieve_selection_falsy ==
  IF selection.none
  THEN IF selected_ids.none \/ selected_ids.ids = {} THEN Some(AllIds)
       ELSE Some({i \in AllIds : i \in selected_ids.ids})
  ELSE selection

\* retrieve_selection that does not keep the materialized list: a second
\* call finds selection set and hands out model.sources
retrieve_selection_refetch ==
  IF selection.none
  THEN IF selected_ids.none THEN Some(AllIds)
       ELSE Some({i \in AllIds : i \in selected_ids.ids})
  ELSE Some(AllIds)

\* the value of selection after retrieve_selection()
retrieve_selection ==
  IF selection.none
  THEN IF selected_ids.none THEN Some(AllIds)
       ELSE Some({i \in AllIds : i \in selected_ids.ids})
  ELSE selection

\* what retrieve_selection() prints
retrieve_report ==
  (IF selection.none
   THEN IF selected_ids.none THEN <<Msg("No explicit selection, using all sources.", "")>>
        ELSE <<Msg("Using selected sources:", "")>>
   ELSE <<>>)
  \o (IF options_list THEN <<Msg("Sources:", "")>> ELSE <<>>)

\* lookupObject(src, tagname), given tags = tagname.split("."): the object
\* to change and the attribute name. obj "" is the source itself, otherwise
\* the name of a sub-object; ok is FALSE when the walk hits None (the print
\* of line 251 then raises AttributeError on None.name) or ends on a value
\* without setAttribute
lookupObject(src, tags) ==
  LET n == Len(tags)
  IN CASE n = 1 -> [ok |-> TRUE, obj |-> "", tag |-> tags[1]]
       [] n = 2 -> LET v == Attr(src, tags[1])
                   IN [ok |-> v.t = "obj" /\ v.s \in DOMAIN src.sub,
                       obj |-> v.s, tag |-> tags[2]]
       [] OTHER -> [ok |-> FALSE, obj |-> "", tag |-> tags[n]]

\* obj.setAttribute(tag, value) and obj.removeAttribute(tag) of the model
\* classes, on the object obj that lookupObject found
setAttribute(src, obj, tag, value) ==
  IF obj = "" THEN [src EXCEPT !.attrs = Put(@, tag, value)]
  ELSE [src EXCEPT !.sub[obj] = Put(@, tag, value)]

removeAttribute(src, obj, tag) ==
  IF obj = "" THEN [src EXCEPT !.attrs = Del(@, tag)]
  ELSE [src EXCEPT !.sub[obj] = Del(@, tag)]

\* ------------------------------------------------------------------------
\* The loop over the arguments: one action per branch of the loop body.
\* The parameter a is the parsed argument, a.arg its text
\* ------------------------------------------------------------------------
Consume(arg) ==
  /\ pc = "loop"
  /\ Len(args) < MaxArgs
  /\ args' = Append(args, arg)

\* parser.error(...): exit status 2
Exit(how, message) ==
  /\ pc' = how
  /\ out' = <<message>>
  /\ UNCHANGED <<sources, selected_ids, selection, listed, modified, options_list>>

\* an uncaught exception: traceback, exit status 1
Raise == Exit("exception", Msg("Traceback", ""))

\* the comprehension of line 276 without its test "tag is not None"
ComparisonMatches_nonone(seltag, key, selval) ==
  {i \in AllIds : select_predicates(key, getTagValue(sources[i], seltag), selval)}

\* lines 267-276: SELTAG<>SELVAL selection
ComparisonMatches(seltag, key, selval) ==
  {i \in AllIds : LET tag == getTagValue(sources[i], seltag)
                 IN tag # PyNone /\ select_predicates(key, tag, selval)}

\* the comparison branch with the failed float() swallowed: the token selects
\* nothing and the loop goes on
ComparisonOutcome_lenient(a) ==
  IF ~a.numeric THEN [how |-> "selected", sel |-> {}]
  ELSE IF \E i \in AllIds : \/ getTagValueRaises(sources[i])
                            \/ /\ getTagValue(sources[i], a.comp.seltag) # PyNone
                               /\ PredicateRaises(a.key, getTagValue(sources[i], a.comp.seltag))
  THEN [how |-> "exception", sel |-> {}]
  ELSE [how |-> "selected", sel |-> ComparisonMatches(a.comp.seltag, a.key, a.selval)]

\* what lines 269-276 do with a token of the comparison form on the current
\* catalog: parser.error, an exception, or the list passed to apply_selection
ComparisonOutcome(a) ==
  IF ~a.numeric THEN [how |-> "exit2", sel |-> {}]
  ELSE IF \E i \in AllIds : \/ getTagValueRaises(sources[i])
                            \/ /\ getTagValue(sources[i], a.comp.seltag) # PyNone
                               /\ PredicateRaises(a.key, getTagValue(sources[i], a.comp.seltag))
  THEN [how |-> "exception", sel |-> {}]
  ELSE [how |-> "selected", sel |-> ComparisonMatches(a.comp.seltag, a.key, a.selval)]

SelectComparison(a) ==
  /\ a.kind = "selcomp"
  /\ Consume(a.arg)
  /\ LET outcome == ComparisonOutcome(a)
     IN CASE outcome.how = "exit2" ->
               Exit("exit2", Msg("Malformed selection string", a.arg))
          [] outcome.how = "exception" -> Raise
          [] OTHER -> /\ apply_selection(outcome.sel, a.arg)
                      /\ UNCHANGED <<sources, modified, options_list, pc>>

\* lines 277-279: =SELTAG selection
TagMatches(seltag) == {i \in AllIds : Truthy(getTagValue(sources[i], seltag))}

SelectTag(a) ==
  /\ a.kind = "seltag"
  /\ Consume(a.arg)
  /\ IF \E i \in AllIds : getTagValueRaises(sources[i])
     THEN Raise
     ELSE /\ apply_selection(TagMatches(a.seltag), a.arg)
          /\ UNCHANGED <<sources, modified, options_list, pc>>

\* lines 280-281: NAME selection; src.name raises when the attribute is gone
\* and fnmatch raises on a name that is not text
NameMatches(a) ==
  {i \in AllIds : LET name == Attr(sources[i], "name").s
                 IN IF name \in Names THEN name \in a.names ELSE fnmatch(name, a.arg)}

SelectName(a) ==
  /\ a.kind = "selname"
  /\ Consume(a.arg)
  /\ IF \E i \in AllIds : Attr(sources[i], "name").t # "str"
     THEN Raise
     ELSE /\ apply_selection(NameMatches(a), a.arg)
          /\ UNCHANGED <<sources, modified, options_list, pc>>

\* the sources of the selection the loops of lines 323 and 348 reach, in
\* model order, before lookupObject fails on one of them
Unresolved(sel, tags) == {i \in sel : ~lookupObject(sources[i], tags).ok}
Reached(sel, tags) == {i \in sel : \A j \in Unresolved(sel, tags) : i < j}
\* what the interpreter prints when the loop dies on such a source
Traceback(sel, tags) ==
  IF Unresolved(sel, tags) # {} THEN <<Msg("Traceback", "")>> ELSE <<>>

\* the tagging loop running over model.sources instead of the selection
ApplyTag_everywhere(sel, tags, tag, method, value) ==
  /\ sources' = [i \in AllIds |->
                   IF i \in Reached(AllIds, tags)
                   THEN IF method = "setAttribute"
                        THEN setAttribute(sources[i], lookupObject(sources[i], tags).obj, tag, value)
                        ELSE removeAttribute(sources[i], lookupObject(sources[i], tags).obj, tag)
                   ELSE sources[i]]
  /\ IF Unresolved(AllIds, tags) = {}
     THEN modified' = TRUE /\ pc' = "loop"
     ELSE UNCHANGED modified /\ pc' = "exception"

\* the tagging loop leaving the catalog as it was, its writes not yet
\* visible to the tokens that follow
ApplyTag_deferred(sel, tags, tag, method, value) ==
  /\ UNCHANGED sources
  /\ IF Unresolved(sel, tags) = {}
     THEN modified' = TRUE /\ pc' = "loop"
     ELSE UNCHANGED modified /\ pc' = "exception"

\* the tagging loop with setAttribute / removeAttribute, then modified =
\* True; tags is the path lookupObject walks, tag the attribute name the
\* caller hands to the method
ApplyTag(sel, tags, tag, method, value) ==
  /\ sources' = [i \in AllIds |->
                   IF i \in Reached(sel, tags)
                   THEN IF method = "setAttribute"
                        THEN setAttribute(sources[i], lookupObject(sources[i], tags).obj, tag, value)
                        ELSE removeAttribute(sources[i], lookupObject(sources[i], tags).obj, tag)
                   ELSE sources[i]]
  /\ IF Unresolved(sel, tags) = {}
     THEN modified' = TRUE /\ pc' = "loop"
     ELSE UNCHANGED modified /\ pc' = "exception"

\* the assignment branch with the --list test placed after the conversion of
\* the value instead of before it
SetTag_listlate(a) ==
  LET sel == retrieve_selection
  IN /\ a.kind = "set"
     /\ Consume(a.arg)
     /\ selection' = sel
     /\ listed' = IF options_list THEN "True" ELSE listed
     /\ UNCHANGED <<selected_ids, options_list>>
     /\ IF ~a.conv.ok
        THEN /\ out' = retrieve_report \o <<Msg("Can't parse value", a.set.value)>>
             /\ pc' = "exit2"
             /\ UNCHANGED <<sources, modified>>
        ELSE IF options_list
        THEN /\ out' = retrieve_report \o <<Msg("--list in effect, ignoring tagging commands", "")>>
             /\ UNCHANGED <<sources, modified, pc>>
        ELSE IF sel.ids # {}
        THEN /\ out' = retrieve_report \o <<Msg("setting tag", a.set.tagname)>>
                       \o Traceback(sel.ids, a.tags)
             /\ ApplyTag(sel.ids, a.tags, a.tags[Len(a.tags)], "setAttribute", a.conv.val)
        ELSE /\ out' = retrieve_report \o <<Msg("No sources selected, ignoring tagging commands", "")>>
             /\ UNCHANGED <<sources, modified, pc>>

\* lines 282-328: TAG=[TYPE:]VALUE; line 325 sets the attribute named by the
\* last segment of the path
SetTag(a) ==
  LET sel == retrieve_selection
  IN /\ a.kind = "set"
     /\ Consume(a.arg)
     /\ selection' = sel
     /\ listed' = IF options_list THEN "True" ELSE listed
     /\ UNCHANGED <<selected_ids, options_list>>
     /\ IF options_list
        THEN /\ out' = retrieve_report \o <<Msg("--list in effect, ignoring tagging commands", "")>>
             /\ UNCHANGED <<sources, modified, pc>>
        ELSE IF ~a.conv.ok
        THEN /\ out' = retrieve_report \o <<Msg("Can't parse value", a.set.value)>>
             /\ pc' = "exit2"
             /\ UNCHANGED <<sources, modified>>
        ELSE IF sel.ids # {}
        THEN /\ out' = retrieve_report \o <<Msg("setting tag", a.set.tagname)>>
                       \o Traceback(sel.ids, a.tags)
             /\ ApplyTag(sel.ids, a.tags, a.tags[Len(a.tags)], "setAttribute", a.conv.val)
        ELSE /\ out' = retrieve_report \o <<Msg("No sources selected, ignoring tagging commands", "")>>
             /\ UNCHANGED <<sources, modified, pc>>

\* lines 329-353: +TAG, !TAG, /TAG; args of lines 339-347 hold tagname, the
\* whole path as written, and line 350 hands it to the method
SetBool(a) ==
  LET sel == retrieve_selection
  IN /\ a.kind = "setbool"
     /\ Consume(a.arg)
     /\ selection' = sel
     /\ listed' = IF options_list THEN "True" ELSE listed
     /\ UNCHANGED <<selected_ids, options_list>>
     /\ IF options_list
        THEN /\ out' = retrieve_report \o <<Msg("--list in effect, ignoring tagging commands", "")>>
             /\ UNCHANGED <<sources, modified, pc>>
        ELSE IF sel.ids # {}
        THEN /\ out' = retrieve_report \o
                       <<Msg(IF a.bool.op = "/" THEN "removing tag" ELSE "setting tag", a.bool.tagname)>>
                       \o Traceback(sel.ids, a.tags)
             /\ ApplyTag(sel.ids, a.tags, a.bool.tagname,
                         IF a.bool.op = "/" THEN "removeAttribute" ELSE "setAttribute",
                         PyBool(a.bool.op = "+"))
        ELSE /\ out' = retrieve_report \o <<Msg("No sources selected, ignoring tagging commands", "")>>
             /\ UNCHANGED <<sources, modified, pc>>

\* the end of the run with the test of modified left out: the model is
\* saved, after the prompt unless forced, whether or not it was changed
Finish_unmodified ==
  /\ pc = "loop"
  /\ Len(args) >= 1
  /\ LET list_now == options_list /\ listed # "True"
     IN /\ selection' = IF list_now THEN retrieve_selection ELSE selection
        /\ listed' = IF list_now THEN "True" ELSE listed
        /\ \E force \in BOOLEAN, confirm \in BOOLEAN :
             /\ pc' = IF ~force /\ ~confirm THEN "cancelled" ELSE "saved"
             /\ out' = (IF list_now THEN retrieve_report ELSE <<>>)
                       \o (IF ~force
                           THEN <<Msg("Press ENTER to save model or Ctrl+C to cancel: ", "")>>
                           ELSE <<>>)
                       \o <<Msg(IF ~force /\ ~confirm THEN "Cancelling"
                                ELSE "Saved updated model", "")>>
  /\ UNCHANGED <<sources, selected_ids, modified, options_list, args>>

\* lines 355-377: after the loop; the command line has at least one token.
\* force is options.force, confirm is the answer to the prompt; the prompt
\* is printed when the run gets to it
Finish ==
  /\ pc = "loop"
  /\ Len(args) >= 1
  /\ LET list_now == options_list /\ listed # "True"
     IN /\ selection' = IF list_now THEN retrieve_selection ELSE selection
        /\ listed' = IF list_now THEN "True" ELSE listed
        /\ \E force \in BOOLEAN, confirm \in BOOLEAN :
             /\ pc' = IF ~modified THEN "exit0"
                      ELSE IF ~force /\ ~confirm THEN "cancelled"
                      ELSE "saved"
             /\ out' = (IF list_now THEN retrieve_report ELSE <<>>)
                       \o (IF modified /\ ~force
                           THEN <<Msg("Press ENTER to save model or Ctrl+C to cancel: ", "")>>
                           ELSE <<>>)
                       \o <<Msg(IF ~modified THEN "Model was not modified"
                                ELSE IF ~force /\ ~confirm THEN "Cancelling"
                                ELSE "Saved updated model", "")>>
  /\ UNCHANGED <<sources, selected_ids, modified, options_list, args>>

\* ------------------------------------------------------------------------
\* Specifications: the same program over different command-line vocabularies
\* ------------------------------------------------------------------------
Init ==
  /\ sources \in [AllIds -> SourceKinds]
  /\ selected_ids = None
  /\ selection = None
  /\ listed = "unset"
  /\ modified = FALSE
  /\ options_list \in BOOLEAN
  /\ args = <<>>
  /\ pc = "loop"
  /\ out = <<>>

Next ==
  \/ \E a \in Argv : SelectComparison(a)
  \/ \E a \in Argv : SelectTag(a)
  \/ \E a \in Argv : SelectName(a)
  \/ \E a \in Argv : SetTag(a)
  \/ \E a \in Argv : SetBool(a)
  \/ Finish

\* command lines of comparisons and assignments only
NextCmp ==
  \/ \E a \in CmpArgv : SelectComparison(a)
  \/ \E a \in CmpArgv : SetTag(a)
  \/ Finish

NextMal ==
  \/ \E a \in MalArgv : SelectComparison(a)
  \/ \E a \in MalArgv : SelectTag(a)
  \/ \E a \in MalArgv : SelectName(a)
  \/ \E a \in MalArgv : SetTag(a)
  \/ \E a \in MalArgv : SetBool(a)
  \/ Finish

NextUnit ==
  \/ \E a \in UnitArgv : SelectComparison(a)
  \/ \E a \in UnitArgv : SelectTag(a)
  \/ \E a \in UnitArgv : SelectName(a)
  \/ \E a \in UnitArgv : SetTag(a)
  \/ \E a \in UnitArgv : SetBool(a)
  \/ Finish

NextTyped ==
  \/ \E a \in TypedArgv : SelectComparison(a)
  \/ \E a \in TypedArgv : SelectTag(a)
  \/ \E a \in TypedArgv : SelectName(a)
  \/ \E a \in TypedArgv : SetTag(a)
  \/ \E a \in TypedArgv : SetBool(a)
  \/ Finish

NextEmpty ==
  \/ \E a \in EmptyArgv : SelectComparison(a)
  \/ \E a \in EmptyArgv : SelectTag(a)
  \/ \E a \in EmptyArgv : SelectName(a)
  \/ \E a \in EmptyArgv : SetTag(a)
  \/ \E a \in EmptyArgv : SetBool(a)
  \/ Finish

NextList ==
  \/ \E a \in ListArgv : SelectComparison(a)
  \/ \E a \in ListArgv : SelectTag(a)
  \/ \E a \in ListArgv : SelectName(a)
  \/ \E a \in ListArgv : SetTag(a)
  \/ \E a \in ListArgv : SetBool(a)
  \/ Finish

NextPrio ==
  \/ \E a \in PrioArgv : SelectComparison(a)
  \/ \E a \in PrioArgv : SelectTag(a)
  \/ \E a \in PrioArgv : SelectName(a)
  \/ \E a \in PrioArgv : SetTag(a)
  \/ \E a \in PrioArgv : SetBool(a)
  \/ Finish

NextAbsent ==
  \/ \E a \in AbsentArgv : SelectComparison(a)
  \/ \E a \in AbsentArgv : SelectTag(a)
  \/ \E a \in AbsentArgv : SelectName(a)
  \/ \E a \in AbsentArgv : SetTag(a)
  \/ \E a \in AbsentArgv : SetBool(a)
  \/ Finish

NextPath ==
  \/ \E a \in PathArgv : SelectComparison(a)
  \/ \E a \in PathArgv : SelectTag(a)
  \/ \E a \in PathArgv : SelectName(a)
  \/ \E a \in PathArgv : SetTag(a)
  \/ \E a \in PathArgv : SetBool(a)
  \/ Finish

NextOrder ==
  \/ \E a \in OrderArgv : SelectComparison(a)
  \/ \E a \in OrderArgv : SelectTag(a)
  \/ \E a \in OrderArgv : SelectName(a)
  \/ \E a \in OrderArgv : SetTag(a)
  \/ \E a \in OrderArgv : SetBool(a)
  \/ Finish

NextShadow ==
  \/ \E a \in ShadowArgv : SelectComparison(a)
  \/ \E a \in ShadowArgv : SelectTag(a)
  \/ \E a \in ShadowArgv : SelectName(a)
  \/ \E a \in ShadowArgv : SetTag(a)
  \/ \E a \in ShadowArgv : SetBool(a)
  \/ Finish

NextSave ==
  \/ \E a \in SaveArgv : SelectComparison(a)
  \/ \E a \in SaveArgv : SelectTag(a)
  \/ \E a \in SaveArgv : SelectName(a)
  \/ \E a \in SaveArgv : SetTag(a)
  \/ \E a \in SaveArgv : SetBool(a)
  \/ Finish

Spec == Init /\ [][Next]_vars
SpecCmp == Init /\ [][NextCmp]_vars
SpecMal == Init /\ [][NextMal]_vars
SpecUnit == Init /\ [][NextUnit]_vars
SpecTyped == Init /\ [][NextTyped]_vars
SpecEmpty == Init /\ [][NextEmpty]_vars
SpecList == Init /\ [][NextList]_vars
SpecPrio == Init /\ [][NextPrio]_vars
SpecAbsent == Init /\ [][NextAbsent]_vars
SpecPath == Init /\ [][NextPath]_vars
SpecOrder == Init /\ [][NextOrder]_vars
SpecShadow == Init /\ [][NextShadow]_vars
SpecSave == Init /\ [][NextSave]_vars

\* ------------------------------------------------------------------------
\* Properties
\* ------------------------------------------------------------------------
PoolTokens ==
  Tokens \cup CmpTokens \cup MalTokens \cup UnitTokens \cup TypedTokens \cup EmptyTokens
  \cup ListTokens \cup PrioTokens \cup AbsentTokens \cup PathTokens \cup OrderTokens \cup ShadowTokens \cup SaveTokens
parsed == [arg \in PoolTokens |-> ParseArg(arg)]

IsSelection(arg) == parsed[arg].kind \in {"selcomp", "seltag", "selname"}
IsMutation(arg) == parsed[arg].kind \in {"set", "setbool"}
Aborted == pc \in {"exit2", "exception"}
Last == args[Len(args)]

\* the match set of one selection token on the catalog as it is now
MatchSet(arg) ==
  CASE parsed[arg].kind = "selcomp" -> ComparisonOutcome(parsed[arg]).sel
    [] parsed[arg].kind = "seltag" -> TagMatches(parsed[arg].seltag)
    [] OTHER -> NameMatches(parsed[arg])

\* the selection tokens consumed since the last mutation token: the longest
\* suffix of args made of selection tokens
RunStart ==
  CHOOSE k \in 1..(Len(args) + 1) :
    /\ \A j \in k..Len(args) : IsSelection(args[j])
    /\ k = 1 \/ ~IsSelection(args[k - 1])
Run == SubSeq(args, RunStart, Len(args))
RunUnion == UNION {MatchSet(Run[j]) : j \in 1..Len(Run)}

\* this step consumes a mutation token
MutationStep == pc = "loop" /\ Len(args') = Len(args) + 1 /\ IsMutation(args'[Len(args')])
Changed == {i \in AllIds : sources'[i] # sources[i]}

\* C1: after a run of consecutive selection tokens with no mutation token
\* between them, the accumulated selection is the union of the match sets of
\* the tokens of the run; a union over the tokens of the run does not depend
\* on their order, so every permutation of the run accumulates the same set.
C1_RunIsUnion ==
  (~Aborted /\ Len(Run) >= 1) => selected_ids = Some(RunUnion)

\* a run of two or more tokens, two of which match sets neither of which
\* contains the other
C1_Witness ==
  /\ pc = "loop"
  /\ Len(Run) >= 2
  /\ \E i, j \in 1..Len(Run) :
       /\ MatchSet(Run[i]) \ MatchSet(Run[j]) # {}
       /\ MatchSet(Run[j]) \ MatchSet(Run[i]) # {}
  /\ selected_ids = Some(RunUnion)

\* C2: the set a mutation token is applied to is the whole catalog when no
\* selection token was consumed before it, the union of the match sets of the
\* selection tokens consumed since the last mutation token when the token
\* follows a selection token, and the set already materialized when it
\* follows a mutation token; the token changes no source outside that set.
C2_AppliedTo ==
  [][MutationStep =>
       /\ selection'.none = FALSE
       /\ selection'.ids = IF \A j \in 1..Len(args) : ~IsSelection(args[j]) THEN AllIds
                           ELSE IF IsSelection(Last) THEN RunUnion
                           ELSE selection.ids
       /\ Changed \subseteq selection'.ids]_vars

\* two cycles: a source changed by the mutation of the first cycle is outside
\* the selection of the second, whose mutation set dE on its own sources only
C2_Witness ==
  /\ Len(args) = 4 /\ pc = "loop" /\ ~options_list
  /\ IsSelection(args[1]) /\ IsMutation(args[2])
  /\ IsSelection(args[3]) /\ args[4] = "+dE"
  /\ selection.ids # {}
  /\ \A i \in selection.ids : Attr(sources[i], "dE") = PyBool(TRUE)
  /\ \E i \in AllIds \ selection.ids :
       Attr(sources[i], "name") = PyStr("A1") /\ Attr(sources[i], "dE") # PyBool(TRUE)

\* C3: a selection token that comes first or right after a mutation token
\* replaces the accumulator with its own match set, and the materialized
\* selection is dropped, as seen while the loop over the tokens is running.
C3_Replaces ==
  (/\ pc = "loop"
   /\ Len(args) >= 1
   /\ IsSelection(Last)
   /\ Len(args) = 1 \/ IsMutation(args[Len(args) - 1]))
  => (selected_ids = Some(MatchSet(Last)) /\ selection = None)

\* selection, mutation, selection: the source the first cycle selected and
\* changed is not selected any more
C3_Witness ==
  /\ Len(args) = 3 /\ pc = "loop" /\ ~options_list
  /\ IsSelection(args[1]) /\ args[2] = "!dE" /\ IsSelection(args[3])
  /\ selected_ids.ids # {}
  /\ \E i \in AllIds \ selected_ids.ids :
       Attr(sources[i], "name") = PyStr("A1") /\ Attr(sources[i], "dE") = PyBool(FALSE)

\* C4: a mutation token that follows a mutation token works on the selection
\* the earlier one materialized: the selection is not computed again, and no
\* source outside it changes.
C4_Idempotent ==
  [][(MutationStep /\ Len(args) >= 1 /\ IsMutation(Last)) =>
       (selection' = selection /\ Changed \subseteq selection.ids)]_vars

\* '=dE' '!dE' 'dE=0': the third token reaches the sources '=dE' selected,
\* although none of them matched '=dE' any more when it ran
C4_Witness ==
  /\ args = <<"=dE", "!dE", "dE=0">> /\ pc = "loop" /\ ~options_list
  /\ selection.ids # {} /\ selection.ids # AllIds
  /\ \A i \in selection.ids : Attr(sources[i], "dE") = PyInt(0)
  /\ \A i \in AllIds \ selection.ids : Attr(sources[i], "dE") # PyInt(0)

\* C7: with --list off, a '+TAG' or '!TAG' token with an undotted TAG and a
\* non-empty materialized selection sets TAG to True or False on every
\* source of the selection, changes nothing else of any source, and sets
\* modified; under --list tagging commands are not applied at all.
C7_BoolFrame ==
  [][(/\ MutationStep
      /\ ~options_list
      /\ parsed[args'[Len(args')]].kind = "setbool"
      /\ parsed[args'[Len(args')]].bool.op \in {"+", "!"}
      /\ Len(parsed[args'[Len(args')]].tags) = 1
      /\ selection'.ids # {})
     => LET m == parsed[args'[Len(args')]].bool
        IN /\ sources' = [i \in AllIds |->
                            IF i \in selection'.ids
                            THEN [sources[i] EXCEPT
                                    !.attrs = Put(@, m.tagname, PyBool(m.op = "+"))]
                            ELSE sources[i]]
           /\ modified'
           /\ pc' = "loop"]_vars

\* '!dE' on a selection that is neither empty nor the whole catalog: the
\* selected sources hold dE = False, a source outside still holds dE = True
C7_Witness ==
  /\ Len(args) >= 2 /\ Last = "!dE" /\ IsSelection(args[Len(args) - 1])
  /\ pc = "loop" /\ ~options_list /\ modified
  /\ selection.ids # {}
  /\ \A i \in selection.ids : Attr(sources[i], "dE") = PyBool(FALSE)
  /\ \E i \in AllIds \ selection.ids : Attr(sources[i], "dE") = PyBool(TRUE)

\* the value the text V has under the explicit type T, when it parses
UnderType(T, V) ==
  IF T = "bool" THEN ConvertValue("bool", V) ELSE BuiltinType(T, V)

\* C5: an assignment 'TAG=T:V' with an explicit type T and a text V that
\* parses under T, on a non-empty selection and with --list off, does not
\* abort the run and leaves TAG equal to the value of V under T on every
\* selected source.
C5_TypedRoundTrip ==
  (/\ Len(args) >= 1
   /\ parsed[Last].kind = "set"
   /\ parsed[Last].set.typename # ""
   /\ UnderType(parsed[Last].set.typename, parsed[Last].set.value).ok
   /\ ~options_list
   /\ selection.ids # {})
  => /\ ~Aborted
     /\ \A i \in selection.ids :
          PyEq(Attr(sources[i], parsed[Last].set.tagname),
               UnderType(parsed[Last].set.typename, parsed[Last].set.value).val)

\* C6: a mutation token of any kind that finds the materialized selection
\* empty, with --list off, changes no source, leaves modified as it was,
\* prints the notice and lets the loop go on.
C6_EmptyRecoverable ==
  [][(MutationStep /\ ~options_list /\ selection'.ids = {}) =>
       /\ sources' = sources
       /\ modified' = modified
       /\ pc' = "loop"
       /\ out'[Len(out')] = Msg("No sources selected, ignoring tagging commands", "")]_vars

\* the shape TAG OP RHS of the claim, read off the text alone: a non-empty
\* TAG without any of = < > ! . , then the longest operator spelling at that
\* place, then a non-empty RHS that is not a number with an optional unit
NumericRhs(rhs) ==
  \/ IsFloatText(rhs)
  \/ /\ Len(rhs) >= 2
     /\ LowerStr(Ch(rhs, Len(rhs))) \in {"d", "m", "s"}
     /\ IsFloatText(SubSeq(rhs, 1, Len(rhs) - 1))

OperAt(arg, p, k) ==
  /\ p + k - 1 <= Len(arg)
  /\ \E j \in 1..Len(OperKeys) : LowerStr(SubSeq(arg, p, p + k - 1)) = OperKeys[j]

NonNumericComparison(arg) ==
  \E p \in 2..Len(arg) : \E k \in 1..4 :
    /\ \A i \in 1..(p - 1) : ~IsStopCh(Ch(arg, i))
    /\ OperAt(arg, p, k)
    /\ \A k2 \in (k + 1)..4 : ~OperAt(arg, p, k2)
    /\ p + k <= Len(arg)
    /\ ~NumericRhs(SubSeq(arg, p + k, Len(arg)))

malformed == [arg \in MalTokens |-> NonNumericComparison(arg)]

\* C8: a token TAG OP RHS whose RHS is not numeric text ends the run at once
\* with the "Malformed selection string" error that names the token.
C8_NonNumericAborts ==
  (Len(args) >= 1 /\ Last \in MalTokens /\ malformed[Last])
  => (pc = "exit2" /\ out = <<Msg("Malformed selection string", Last)>>)

\* each symbolic operator with its FORTRAN-style spelling in lower, upper
\* and mixed case
Spellings ==
  {<<"==", ".eq.">>, <<"==", ".EQ.">>, <<"==", ".Eq.">>,
   <<"!=", ".ne.">>, <<"!=", ".NE.">>, <<"!=", ".nE.">>,
   <<"<", ".lt.">>, <<"<", ".LT.">>, <<"<", ".Lt.">>,
   <<"<=", ".le.">>, <<"<=", ".LE.">>, <<"<=", ".lE.">>,
   <<">", ".gt.">>, <<">", ".GT.">>, <<">", ".Gt.">>,
   <<">=", ".ge.">>, <<">=", ".GE.">>, <<">=", ".gE.">>}

\* a numeric tag, a text tag and a tag no source has; literals equal to,
\* below and above the values of r, with and without unit, and one that is
\* no number
CmpTags == {"r", "name", "zz"}
CmpValues == {"1", "2s", "3600s", "1d", "x1"}

\* what lines 267-276 use of a parsed comparison: all but the text of the
\* token and the spelling of the operator as written
Comparison(a) == [a EXCEPT !.arg = "", !.comp.oper = ""]

\* the two spellings of one comparison, parsed
SpellingPairs ==
  {<<Comparison(ParseArg(t \o p[1] \o v)), Comparison(ParseArg(t \o p[2] \o v))>> :
     p \in Spellings, t \in CmpTags, v \in CmpValues}

\* C9: on every catalog, the symbolic and the FORTRAN-style spelling of a
\* comparison, in any letter case, are both comparisons and have the same
\* outcome: the same set of sources selected, or the same error.
C9_SpellingsAgree ==
  \A p \in SpellingPairs :
    /\ p[1].kind = "selcomp" /\ p[2].kind = "selcomp"
    /\ ComparisonOutcome(p[1]) = ComparisonOutcome(p[2])

\* a FORTRAN-style comparison has just selected some but not all sources,
\* after an assignment changed the compared tag
C9_Witness ==
  /\ Len(args) >= 2 /\ pc = "loop" /\ ~options_list
  /\ args[Len(args) - 1] = "r=1"
  /\ Last = "r.GE.1d"
  /\ selection = None
  /\ selected_ids.ids # {} /\ selected_ids.ids # AllIds
  /\ selected_ids.ids = ComparisonOutcome(parsed[Last]).sel

\* the threshold of the claim: the literal times the factor of the unit
\* character the grammar accepted, one degree for d whatever its case
ClaimedThreshold(a) ==
  Scaled(a.comp.selval, LowerStr(a.comp.unit))

\* C10: a comparison token with a numeric literal selects the sources whose
\* tag compares true against the literal times the factor of its unit
\* character (d one degree, m 1/60 degree, s 1/3600 degree), or against the
\* literal itself when there is no unit character.
C10_UnitScaling ==
  (/\ pc = "loop"
   /\ Len(args) >= 1
   /\ parsed[Last].kind = "selcomp"
   /\ parsed[Last].numeric
   /\ Len(Run) = 1)
  => selected_ids.ids = ComparisonMatches(parsed[Last].comp.seltag, parsed[Last].key,
                                          ClaimedThreshold(parsed[Last]))

\* this step consumes a selection token
SelectionStep == pc = "loop" /\ Len(args') = Len(args) + 1 /\ IsSelection(args'[Len(args')])

\* C11: with --list in effect no step changes a source, sets modified or
\* saves the model; a tagging command never ends the run, whatever its value
\* text, and materializes the selection, so that the selection token after it
\* replaces the selected set with its own match set.
C11_ListAppliesNothing ==
  [][options_list =>
       /\ sources' = sources
       /\ ~modified'
       /\ pc' # "saved"
       /\ MutationStep =>
            (pc' = "loop" /\ selection' = retrieve_selection /\ ~selection'.none)
       /\ (SelectionStep /\ Len(args) >= 1 /\ IsMutation(Last) /\ pc' = "loop") =>
            (selected_ids' = Some(MatchSet(args'[Len(args')])) /\ selection' = None)]_vars

\* under --list: a selection, a typed assignment, a removal, then '=dE',
\* which selects fewer sources than the first selection did and still finds
\* dE where '/dE' would have removed it
C11_Witness ==
  /\ options_list /\ pc = "loop" /\ ~modified
  /\ args = <<"A*", "x=int:5", "/dE", "=dE">>
  /\ selected_ids.ids # {}
  /\ MatchSet("A*") \ selected_ids.ids # {}

\* the grammar that handles a token by the priority comparison, existence,
\* assignment, boolean/removal, name-glob: the first one its text matches
Priority(arg) ==
  IF mselcomp(arg).m THEN "selcomp"
  ELSE IF mseltag(arg).m THEN "seltag"
  ELSE IF mset(arg).m THEN "set"
  ELSE IF msetbool(arg).m THEN "setbool"
  ELSE "selname"

priority == [arg \in PrioTokens |-> Priority(arg)]
seltags == [arg \in PrioTokens |-> mseltag(arg).seltag]

\* this step consumes a token
TokenStep == pc = "loop" /\ Len(args') = Len(args) + 1
NewToken == args'[Len(args')]
\* the selected ids a selection token adds to
Base == IF ~selection.none \/ selected_ids.none THEN {} ELSE selected_ids.ids
\* the tagging command of this step was carried out on some source
Applied == ~options_list /\ pc' = "loop" /\ selection'.ids # {}

\* C12: every token has the effect of exactly one grammar, the first that
\* matches it in the order comparison, existence, assignment,
\* boolean/removal, name-glob: a comparison selects by comparing, '=...'
\* selects by tag, an assignment materializes the selection and sets the tag
\* named before the last '=', also when the token starts with + ! or /, and
\* a token is a name pattern only when nothing else matches.
C12_Priority ==
  [][(TokenStep /\ NewToken \in PrioTokens) =>
       CASE priority[NewToken] = "selcomp" ->
              /\ selection' = None /\ sources' = sources
              /\ selected_ids' = Some(Base \cup ComparisonOutcome(parsed[NewToken]).sel)
         [] priority[NewToken] = "seltag" ->
              /\ selection' = None /\ sources' = sources
              /\ selected_ids' = Some(Base \cup TagMatches(seltags[NewToken]))
         [] priority[NewToken] = "selname" ->
              /\ selection' = None /\ sources' = sources
              /\ selected_ids' = Some(Base \cup NameMatches(parsed[NewToken]))
         [] priority[NewToken] = "set" ->
              /\ ~selection'.none /\ selected_ids' = selected_ids
              /\ Applied => \A i \in selection'.ids :
                   Attr(sources'[i], parsed[NewToken].set.tagname) = parsed[NewToken].conv.val
         [] priority[NewToken] = "setbool" ->
              /\ ~selection'.none /\ selected_ids' = selected_ids
              /\ Applied => \A i \in selection'.ids :
                   Attr(sources'[i], parsed[NewToken].bool.tagname)
                     = PyBool(parsed[NewToken].bool.op = "+")]_vars

\* 'a==5' has selected the sources 'a=5' set a on, and '+a=b' has given
\* them a tag named '+a' with the text b, which the other sources lack
C12_Witness ==
  /\ args = <<"A*", "a=5", "a==5", "+a=b">> /\ pc = "loop" /\ ~options_list
  /\ selection.ids # {} /\ selection.ids # AllIds
  /\ \A i \in selection.ids :
       Attr(sources[i], "a") = PyInt(5) /\ Attr(sources[i], "+a") = PyStr("b")
  /\ \A i \in AllIds \ selection.ids : "+a" \notin DOMAIN sources[i].attrs

\* C13 (as stated): a token TAG OP RHS whose RHS is not a number is passed on
\* to the lower-priority grammars and does not end the run with the
\* malformed-selection error.
C13_FallsThrough ==
  (Len(args) >= 1 /\ Last \in MalTokens /\ malformed[Last])
  => ~(pc = "exit2" /\ out = <<Msg("Malformed selection string", Last)>>)

\* C13 (amended): a token that the comparison expression matches and whose
\* value text is not a number is not passed on to any other grammar: the run
\* ends at once with the malformed-selection error naming the token, and the
\* selection, the catalog and the modified flag stay as they were.
C13_NonNumericValueAborts ==
  [][(TokenStep /\ parsed[NewToken].comp.m /\ ~parsed[NewToken].numeric) =>
       /\ pc' = "exit2"
       /\ out' = <<Msg("Malformed selection string", NewToken)>>
       /\ UNCHANGED <<sources, selected_ids, selection, modified>>]_vars

\* 'r<xyz' has ended a run in which an earlier token had selected sources
C13_Witness ==
  /\ Len(args) >= 2 /\ Last = "r<xyz"
  /\ pc = "exit2" /\ out = <<Msg("Malformed selection string", "r<xyz")>>
  /\ selected_ids.ids # {}

\* the tag is defined neither on the source nor on one of its sub-objects
Absent(src, tag) ==
  /\ tag \notin DOMAIN src.attrs
  /\ \A o \in {"pos", "flux", "shape", "spectrum"} :
       o \in DOMAIN src.sub => tag \notin DOMAIN src.sub[o]

\* comparisons of every operator, in both spellings, on tags that sources lack
AbsentComparisons ==
  {Comparison(ParseArg(t \o p[k] \o "1")) :
     t \in {"dE", "zz"}, p \in {q \in Spellings : q[2] = LowerStr(q[2])}, k \in {1, 2}}

\* C14: whatever the operator, != and .ne. included, a source on which the
\* tag of a comparison is absent is not in the match set of the comparison,
\* and is not among the sources a comparison token has just selected.
C14_AbsentNeverMatches ==
  /\ \A c \in AbsentComparisons :
       \A i \in ComparisonMatches(c.comp.seltag, c.key, c.selval) :
         ~Absent(sources[i], c.comp.seltag)
  /\ (pc = "loop" /\ Len(Run) = 1 /\ parsed[Last].kind = "selcomp") =>
       \A i \in selected_ids.ids : ~Absent(sources[i], parsed[Last].comp.seltag)

\* '=dE' '/dE' 'dE!=1': the source that lost dE is not selected by 'dE!=1',
\* a source whose dE is False is
C14_Witness ==
  /\ args = <<"=dE", "/dE", "dE!=1">> /\ pc = "loop" /\ ~options_list
  /\ selected_ids.ids # {}
  /\ \E i \in AllIds \ selected_ids.ids :
       Attr(sources[i], "name") = PyStr("A1") /\ Absent(sources[i], "dE")

\* the source after the tagging command of a parsed token has been applied
\* to it as the claim describes: the attribute named by the last segment of
\* the path is set or removed on the object the other segments lead to
LastSegmentEffect(src, a) ==
  LET obj == lookupObject(src, a.tags).obj
      tag == a.tags[Len(a.tags)]
  IN IF a.kind = "set" THEN setAttribute(src, obj, tag, a.conv.val)
     ELSE IF a.bool.op = "/" THEN removeAttribute(src, obj, tag)
     ELSE setAttribute(src, obj, tag, PyBool(a.bool.op = "+"))

\* C15: a tagging command of any kind that is applied sets or removes, on
\* every selected source, the attribute named by the last segment of its
\* path, on the object that the segments before it lead to.
C15_LastSegment ==
  [][(MutationStep /\ Applied) =>
       \A i \in selection'.ids :
         sources'[i] = LastSegmentEffect(sources[i], parsed[NewToken])]_vars

\* C16: when the path of a tagging command does not resolve on a selected
\* source, the run ends at that source with a message that names the path:
\* the sources before it in model order keep what the command did to them,
\* that source and the ones after it are left alone, no later token is
\* processed and the model is not saved.
C16_UnresolvedFatal ==
  [][(MutationStep /\ ~options_list
      /\ Unresolved(selection'.ids, parsed[NewToken].tags) # {}) =>
       LET a == parsed[NewToken]
           first == CHOOSE i \in Unresolved(selection'.ids, a.tags) :
                      \A j \in Unresolved(selection'.ids, a.tags) : i <= j
       IN /\ pc' \in {"exit1", "exception"}
          /\ \A i \in AllIds :
               sources'[i] # sources[i] => (i \in selection'.ids /\ i < first)
          /\ modified' = modified
          /\ \E k \in 1..Len(out') :
               out'[k] = Msg("Can't resolve attribute",
                             IF a.kind = "set" THEN a.set.tagname ELSE a.bool.tagname)]_vars

\* C17: the modified flag is raised by exactly the steps that change the
\* attribute state of some source: a step leaves it as it was unless it
\* changes a source, it never returns to false, and a run whose tagging
\* commands change nothing ends with the flag false.
C17_ModifiedTracksChange ==
  [][modified' = (modified \/ sources' # sources)]_vars

\* C18: the tokens take effect one after the other, in the order given. A
\* selection token is matched against the catalog as the tokens before it
\* left it: right after a command that set dE to True on a set of sources,
\* '=dE' selects all of them (every source when nothing was selected
\* before), and right after one that removed dE or set it to 0, '=dE'
\* selects none of them. A tagging command leaves the accumulated selection
\* as the selection tokens before it made it: its own writes do not change
\* which sources it, or a tagging command after it, is applied to.
C18_InOrder ==
  [][/\ (SelectionStep /\ pc' = "loop") =>
          selected_ids' = Some(Base \cup MatchSet(NewToken))
     /\ (SelectionStep /\ pc' = "loop" /\ ~options_list
         /\ NewToken = "=dE" /\ Len(args) >= 1) =>
          /\ Last = "+dE" => selection.ids \subseteq selected_ids'.ids
          /\ Last \in {"/dE", "dE=0"} => selection.ids \cap selected_ids'.ids = {}
          /\ args = <<"+dE">> => selected_ids' = Some(AllIds)
          /\ args = <<"/dE">> => selected_ids' = Some({})
     /\ MutationStep =>
          /\ selected_ids' = selected_ids
          /\ selection' = retrieve_selection]_vars

\* '=dE', 'dE=0', '=dE' on a catalog with a source that had dE set: the
\* command cleared dE on the sources the first token selected, and the
\* second '=dE' selects nothing
C18_Witness ==
  /\ pc = "loop" /\ ~options_list
  /\ args = <<"=dE", "dE=0", "=dE">>
  /\ selected_ids = Some({})
  /\ \E i \in AllIds : Attr(sources[i], "name") = PyStr("A1")

\* the objects a tag is looked for on, in the order of the lookup: the
\* source itself, then its sub-objects by name
LookupOrder == <<"", "pos", "flux", "shape", "spectrum">>
Defines(src, k, tag) ==
  IF k = 1 THEN tag \in DOMAIN src.attrs
  ELSE LookupOrder[k] \in DOMAIN src.sub /\ tag \in DOMAIN src.sub[LookupOrder[k]]
FirstDefined(src, tag) ==
  LET D == {k \in 1..Len(LookupOrder) : Defines(src, k, tag)}
      k == CHOOSE x \in D : \A y \in D : x <= y
  IN IF D = {} THEN PyNone
     ELSE IF k = 1 THEN src.attrs[tag] ELSE src.sub[LookupOrder[k]][tag]

\* C19: a selection token that looks up a tag uses the value of the first
\* of source, position, flux, shape, spectrum that defines it: '=TAG' adds
\* the sources where that value is truthy, a comparison those where it
\* satisfies the comparison, whatever the objects later in the order hold;
\* a source without shape or spectrum is looked up without error.
C19_LookupOrder ==
  [][(SelectionStep /\ parsed[NewToken].kind \in {"seltag", "selcomp"}) =>
       LET a == parsed[NewToken]
       IN /\ pc' = "loop"
          /\ a.kind = "seltag" =>
               selected_ids' = Some(Base \cup
                 {i \in AllIds : Truthy(FirstDefined(sources[i], a.seltag))})
          /\ a.kind = "selcomp" =>
               selected_ids' = Some(Base \cup
                 {i \in AllIds :
                    LET v == FirstDefined(sources[i], a.comp.seltag)
                    IN v # PyNone /\ select_predicates(a.key, v, a.selval)})]_vars

\* '=dE' has just left out a source whose dE is False although its flux
\* holds a truthy dE, and a source without shape and spectrum was looked up
C19_Witness ==
  /\ pc = "loop" /\ Len(args) >= 2 /\ Last = "=dE"
  /\ ~selected_ids.none
  /\ \E i \in AllIds \ selected_ids.ids :
       /\ Attr(sources[i], "dE") = PyBool(FALSE)
       /\ "dE" \in DOMAIN sources[i].sub["flux"]
       /\ Truthy(sources[i].sub["flux"]["dE"])
       /\ "shape" \notin DOMAIN sources[i].sub

\* what the last step printed
Printed(kind) == \E k \in 1..Len(out) : out[k].msg = kind
Prompted == Printed("Press ENTER to save model or Ctrl+C to cancel: ")
Fatal == pc \in {"exit1", "exit2", "exception"}

\* C20: the model is saved only by the step that ends a run whose tokens
\* were all processed without a fatal error and that set modified, and
\* then only without a prompt (--force) or after a prompt that was not
\* declined; a run that ended in a fatal error, a run with modified false
\* and a run whose prompt was declined never save.
C20_SaveOnlyWhen ==
  [][/\ pc' = "saved" =>
          /\ pc = "loop" /\ modified
          /\ \A j \in 1..Len(args) : parsed[args[j]].kind # "selcomp" \/ parsed[args[j]].numeric
          /\ \A j \in 1..Len(args) : parsed[args[j]].kind # "set" \/ options_list \/ parsed[args[j]].conv.ok
          /\ ~Printed("Cancelling")'
     /\ Fatal => pc' = pc
     /\ pc \in {"exit0", "cancelled"} => pc' = pc
     /\ (pc = "loop" /\ ~modified) => pc' # "saved"
     /\ Printed("Cancelling")' => (Prompted' /\ pc' = "cancelled")]_vars

\* the model was saved after the prompt, at the end of a run that selected
\* sources and set a tag on them
C20_Witness ==
  /\ pc = "saved" /\ Prompted /\ modified
  /\ Len(args) >= 2 /\ IsSelection(args[1]) /\ Last = "+dE"

====
